---- MODULE Spec2Model ----
(***************************************************************************)
(* Model of gem-prom.py: the GreenEye-monitor to Prometheus exporter.      *)
(*                                                                         *)
(* main() loads the configuration, runs the gem() task on the event loop   *)
(* and stops the scrape server in its finally block.  gem() starts the     *)
(* scrape server and the device listener and then sleeps; every packet of  *)
(* a monitor calls update_stats, which writes the three instruments.       *)
(***************************************************************************)
EXTENDS Integers, Sequences, FiniteSets, TLC

VARIABLES
    config,      \* the parsed YAML file (main: config = _get_config(...))
    main_pc,     \* position of main()
    gem_pc,      \* position of the gem() task
    prom_svr,    \* the aioprometheus Service: "init", "started", "stopped"
    server,      \* the Monitors server of gem(): "init", "open", "closed"
    stats,       \* the three instruments, each a map label set -> value
    monitor,     \* the monitor state handed to the latest update_stats call
    applied,     \* the inc/set calls made by the latest update_stats call
    raised,      \* did the latest update_stats call raise
    delivered    \* number of packets delivered so far, per serial

vars == <<config, main_pc, gem_pc, prom_svr, server, stats, monitor, applied,
          raised, delivered>>

----------------------------------------------------------------------------
(* Bounds of the model *)

MaxChannels == 2     \* longest monitor.channels list
MaxReadings == 2     \* packets delivered in one run

Serials == {"A", "B"}
ChannelNumbers == {0, 1, 32}
Loads == {1, 2}      \* a packet's electrical load: sets its voltage and watts

----------------------------------------------------------------------------
(* Python values: None, str, int and dict, told apart by a tag *)

NoneV == [t |-> "none", s |-> "", n |-> 0]
StrV(s) == [t |-> "str", s |-> s, n |-> 0]
IntV(n) == [t |-> "int", s |-> "", n |-> n]
DictV(f) == [t |-> "dict", d |-> f]

IsNone(v) == v.t = "none"

EmptyDict == [k \in {} |-> NoneV]

\* dict.get(key): the value, or None when the key is missing
Get(d, k) == IF k \in DOMAIN d THEN d[k] ELSE NoneV

\* {**a, **b}: the keys of both, b's value where both have the key
PyMerge(a, b) == b @@ a

----------------------------------------------------------------------------
(* Configuration files the run may be started with *)

Cfg1 ==
    ("A" :> (("location" :> StrV("garage")) @@
             ("channels" :> DictV((1 :> DictV("circuit" :> StrV("oven"))) @@
                                  (2 :> DictV(EmptyDict))))))

Cfg2 ==
    ("A" :> ("location" :> StrV("garage"))) @@
    ("B" :> (("location" :> StrV("attic")) @@
             ("channels" :> DictV((1 :> NoneV) @@
                                  (2 :> DictV("circuit" :> StrV("dryer")))))))

Cfg3 ==
    ("A" :> (("location" :> StrV("garage")) @@
             ("channels" :> DictV((1 :> DictV("channel" :> IntV(7))) @@
                                  (2 :> DictV("circuit" :> StrV("oven"))))))) @@
    ("B" :> ("channels" :> DictV((1 :> DictV("circuit" :> StrV("dryer"))) @@
                                 (2 :> DictV(("circuit" :> StrV("pump")) @@
                                             ("room" :> StrV("cellar")))))))

Cfg4 ==
    ("A" :> (("location" :> StrV("")) @@
             ("channels" :> DictV(2 :> DictV("circuit" :> StrV("oven")))))) @@
    ("B" :> (("location" :> StrV("attic")) @@
             ("channels" :> DictV((1 :> DictV("circuit" :> StrV("dryer"))) @@
                                  (2 :> DictV(("serial" :> StrV("A")) @@
                                              ("location" :> StrV("")) @@
                                              ("circuit" :> StrV("oven"))))))))

Configs == {Cfg1, Cfg2, Cfg3, Cfg4}

----------------------------------------------------------------------------
(* Readings: what a monitor object holds when its listener is called.   *)
(* The packets fed in list distinct channel numbers in any order; two     *)
(* packets of different load differ in voltage and in the watts of every  *)
(* channel, and channels 0 and 1 of one packet differ in watts.           *)

NumberLists ==
    {ns \in UNION {[1..n -> ChannelNumbers] : n \in 0..MaxChannels} :
        \A i, j \in 1..Len(ns) : ns[i] = ns[j] => i = j}

Channel(number, load) == [number |-> number, watts |-> (10 * load) + (number % 2)]

Monitor(serial, load, numbers) ==
    [serial_number |-> serial,
     voltage |-> 119 + load,
     channels |-> [i \in 1..Len(numbers) |-> Channel(numbers[i], load)]]

Monitors ==
    {Monitor(serial, load, numbers) :
        serial \in Serials, load \in Loads, numbers \in NumberLists}

NoMonitor == [serial_number |-> "", voltage |-> 0, channels |-> <<>>]

----------------------------------------------------------------------------
(* update_stats: the inc/set calls one packet makes, in call order.  Each  *)
(* call is recorded with the instrument, the label dict, the value and,   *)
(* for a power update, the position in monitor.channels it came from.     *)

PacketInc(serial) ==
    [inst |-> "gem_packets_rcvd", labels |-> ("serial" :> StrV(serial)),
     value |-> 1, src |-> 0]

\* variant: a missing location is left out of the labels
gem_tags_drop_none(serial, location) ==
    IF IsNone(location) THEN ("serial" :> StrV(serial))
    ELSE ("serial" :> StrV(serial)) @@ ("location" :> location)

gem_tags(serial, location) ==
    ("serial" :> StrV(serial)) @@ ("location" :> location)

VoltageSet(tags, voltage) ==
    [inst |-> "gem_ac_voltage", labels |-> tags, value |-> voltage, src |-> 0]

chan_tags(tags, chan_num, chan_config_tags) ==
    PyMerge(PyMerge(tags, "channel" :> IntV(chan_num)), chan_config_tags)

PowerSet(tags, watts, i) ==
    [inst |-> "gem_ac_power", labels |-> tags, value |-> watts, src |-> i]

\* variant: a channel number >= 32 is skipped instead of ending the loop
RECURSIVE channel_loop_skip(_, _, _, _, _)
channel_loop_skip(tags, channel_config, channels, i, acc) ==
    IF i > Len(channels) THEN [ups |-> acc, err |-> FALSE]
    ELSE LET channel == channels[i]
             chan_num == channel.number + 1
         IN IF channel.number >= 32
            THEN channel_loop_skip(tags, channel_config, channels, i + 1, acc)
            ELSE IF IsNone(channel_config) THEN [ups |-> acc, err |-> TRUE]
            ELSE IF chan_num \notin DOMAIN channel_config.d
                 THEN channel_loop_skip(tags, channel_config, channels, i + 1, acc)
            ELSE IF IsNone(channel_config.d[chan_num])
                 THEN [ups |-> acc, err |-> TRUE]
            ELSE channel_loop_skip(tags, channel_config, channels, i + 1,
                     Append(acc,
                         PowerSet(chan_tags(tags, chan_num,
                                            channel_config.d[chan_num].d),
                                  channel.watts, i)))

\* variant: the channels are visited last to first
RECURSIVE channel_loop_reversed(_, _, _, _, _)
channel_loop_reversed(tags, channel_config, channels, i, acc) ==
    IF i > Len(channels) THEN [ups |-> acc, err |-> FALSE]
    ELSE LET at == Len(channels) + 1 - i
             channel == channels[at]
             chan_num == channel.number + 1
         IN IF channel.number >= 32 THEN [ups |-> acc, err |-> FALSE]
            ELSE IF IsNone(channel_config) THEN [ups |-> acc, err |-> TRUE]
            ELSE IF chan_num \notin DOMAIN channel_config.d
                 THEN channel_loop_reversed(tags, channel_config, channels,
                                            i + 1, acc)
            ELSE IF IsNone(channel_config.d[chan_num])
                 THEN [ups |-> acc, err |-> TRUE]
            ELSE channel_loop_reversed(tags, channel_config, channels, i + 1,
                     Append(acc,
                         PowerSet(chan_tags(tags, chan_num,
                                            channel_config.d[chan_num].d),
                                  channel.watts, at)))

\* the for loop over monitor.channels from position i on; acc holds the calls
\* made so far.  err: the loop ended in a TypeError.
RECURSIVE channel_loop(_, _, _, _, _)
channel_loop(tags, channel_config, channels, i, acc) ==
    IF i > Len(channels) THEN [ups |-> acc, err |-> FALSE]
    ELSE LET channel == channels[i]
             chan_num == channel.number + 1
         IN IF channel.number >= 32 THEN [ups |-> acc, err |-> FALSE]
            \* "chan_num not in None" raises TypeError
            ELSE IF IsNone(channel_config) THEN [ups |-> acc, err |-> TRUE]
            ELSE IF chan_num \notin DOMAIN channel_config.d
                 THEN channel_loop(tags, channel_config, channels, i + 1, acc)
            \* "**None" raises TypeError
            ELSE IF IsNone(channel_config.d[chan_num])
                 THEN [ups |-> acc, err |-> TRUE]
            ELSE channel_loop(tags, channel_config, channels, i + 1,
                     Append(acc,
                         PowerSet(chan_tags(tags, chan_num,
                                            channel_config.d[chan_num].d),
                                  channel.watts, i)))

\* variant: no early return for a serial that is not configured
update_stats_no_return(cfg, mon) ==
    LET serial == mon.serial_number
        entry == IF serial \in DOMAIN cfg THEN cfg[serial] ELSE EmptyDict
        location == Get(entry, "location")
        tags == gem_tags(serial, location)
        channel_config == Get(entry, "channels")
        loop == channel_loop(tags, channel_config, mon.channels, 1, <<>>)
    IN [ups |-> <<PacketInc(serial), VoltageSet(tags, mon.voltage)>> \o loop.ups,
        err |-> loop.err]

update_stats(cfg, mon) ==
    LET serial == mon.serial_number
    IN IF serial \notin DOMAIN cfg
       THEN [ups |-> <<PacketInc(serial)>>, err |-> FALSE]
       ELSE LET location == Get(cfg[serial], "location")
                tags == gem_tags(serial, location)
                channel_config == Get(cfg[serial], "channels")
                loop == channel_loop(tags, channel_config, mon.channels, 1, <<>>)
            IN [ups |-> <<PacketInc(serial), VoltageSet(tags, mon.voltage)>>
                            \o loop.ups,
                err |-> loop.err]

----------------------------------------------------------------------------
(* The instruments: Counter.inc and Gauge.set on a map label set -> value *)

\* variant: the counter is set to 1 instead of incremented
inc_overwrite(values, labels) ==
    IF labels \in DOMAIN values
    THEN [values EXCEPT ![labels] = 1]
    ELSE (labels :> 1) @@ values

inc(values, labels) ==
    IF labels \in DOMAIN values
    THEN [values EXCEPT ![labels] = @ + 1]
    ELSE (labels :> 1) @@ values

\* variant: an existing time series keeps its first value
set_keep_first(values, labels, value) ==
    IF labels \in DOMAIN values
    THEN values
    ELSE (labels :> value) @@ values

set(values, labels, value) ==
    IF labels \in DOMAIN values
    THEN [values EXCEPT ![labels] = value]
    ELSE (labels :> value) @@ values

ApplyCall(st, u) ==
    IF u.inst = "gem_packets_rcvd"
    THEN [st EXCEPT !.gem_packets_rcvd = inc(@, u.labels)]
    ELSE IF u.inst = "gem_ac_voltage"
    THEN [st EXCEPT !.gem_ac_voltage = set(@, u.labels, u.value)]
    ELSE [st EXCEPT !.gem_ac_power = set(@, u.labels, u.value)]

RECURSIVE ApplyCalls(_, _, _)
ApplyCalls(st, ups, i) ==
    IF i > Len(ups) THEN st ELSE ApplyCalls(ApplyCall(st, ups[i]), ups, i + 1)

\* register_prom_stats: three instruments without any time series
register_prom_stats ==
    [gem_packets_rcvd |-> EmptyDict, gem_ac_voltage |-> EmptyDict,
     gem_ac_power |-> EmptyDict]

----------------------------------------------------------------------------
(* main() and gem() *)

Init ==
    /\ config \in Configs
    /\ main_pc = "get_config"
    /\ gem_pc = "created"
    /\ prom_svr = "init"
    /\ server = "init"
    /\ stats = register_prom_stats
    /\ monitor = NoMonitor
    /\ applied = <<>>
    /\ raised = FALSE
    /\ delivered = [s \in Serials |-> 0]

Total == delivered["A"] + delivered["B"]

\* _get_config returns the mapping; main creates the task and runs the loop
GetConfigOk ==
    /\ main_pc = "get_config"
    /\ main_pc' = "run"
    /\ gem_pc' = "prom_start"
    /\ UNCHANGED <<config, prom_svr, server, stats, monitor, applied, raised,
                   delivered>>

\* open() raises FileNotFoundError: sys.exit(1)
GetConfigNotFound ==
    /\ main_pc = "get_config"
    /\ main_pc' = "exit1"
    /\ UNCHANGED <<config, gem_pc, prom_svr, server, stats, monitor, applied,
                   raised, delivered>>

\* open() or yaml.load raises something else: nothing catches it
GetConfigRaises ==
    /\ main_pc = "get_config"
    /\ main_pc' = "failed"
    /\ UNCHANGED <<config, gem_pc, prom_svr, server, stats, monitor, applied,
                   raised, delivered>>

\* await prom_svr.start(...) returns
PromStartOk ==
    /\ main_pc = "run"
    /\ gem_pc = "prom_start"
    /\ prom_svr' = "started"
    /\ gem_pc' = "start_server"
    /\ UNCHANGED <<config, main_pc, server, stats, monitor, applied, raised,
                   delivered>>

\* await prom_svr.start(...) raises: the task ends with the exception,
\* run_until_complete re-raises it and main goes to its finally block
PromStartFail ==
    /\ main_pc = "run"
    /\ gem_pc = "prom_start"
    /\ gem_pc' = "error"
    /\ main_pc' = "finally_exc"
    /\ UNCHANGED <<config, prom_svr, server, stats, monitor, applied, raised,
                   delivered>>

\* await monitors.start_server(gem_port) returns, the async with is entered
StartServerOk ==
    /\ main_pc = "run"
    /\ gem_pc = "start_server"
    /\ server' = "open"
    /\ gem_pc' = "sleep"
    /\ UNCHANGED <<config, main_pc, prom_svr, stats, monitor, applied, raised,
                   delivered>>

StartServerFail ==
    /\ main_pc = "run"
    /\ gem_pc = "start_server"
    /\ gem_pc' = "error"
    /\ main_pc' = "finally_exc"
    /\ UNCHANGED <<config, prom_svr, server, stats, monitor, applied, raised,
                   delivered>>

\* asyncio.sleep(60) returns and the while loop sleeps again
SleepAgain ==
    /\ main_pc = "run"
    /\ gem_pc = "sleep"
    /\ UNCHANGED vars

\* KeyboardInterrupt out of run_until_complete: gem_task.cancel(), then the
\* loop is run again until the task is done.  The shutdown signal is one
\* interrupt, taken while the loop waits for events.
KeyboardInterrupt ==
    /\ main_pc = "run"
    /\ main_pc' = "rerun"
    /\ UNCHANGED <<config, gem_pc, prom_svr, server, stats, monitor, applied,
                   raised, delivered>>

\* variant: the CancelledError of the sleep is caught without leaving the loop
GemCancelled_no_break ==
    /\ main_pc = "rerun"
    /\ IF gem_pc = "sleep"
       THEN UNCHANGED <<main_pc, gem_pc, server>>
       ELSE server' = server /\ gem_pc' = "cancelled" /\ main_pc' = "finally"
    /\ UNCHANGED <<config, prom_svr, stats, monitor, applied, raised,
                   delivered>>

\* variant: the server is left open when the sleep is cancelled
GemCancelled_no_close ==
    /\ main_pc = "rerun"
    /\ server' = server
    /\ gem_pc' = IF gem_pc = "sleep" THEN "done" ELSE "cancelled"
    /\ main_pc' = "finally"
    /\ UNCHANGED <<config, prom_svr, stats, monitor, applied, raised,
                   delivered>>

\* the cancelled task is resumed with CancelledError.  In the sleep it is
\* caught: break, the async with closes the server and gem() returns.
\* At the two earlier awaits it ends the task and main passes on it.
GemCancelled ==
    /\ main_pc = "rerun"
    /\ IF gem_pc = "sleep"
       THEN server' = "closed" /\ gem_pc' = "done"
       ELSE server' = server /\ gem_pc' = "cancelled"
    /\ main_pc' = "finally"
    /\ UNCHANGED <<config, prom_svr, stats, monitor, applied, raised,
                   delivered>>

\* variant: the exception of the task is dropped after the finally block
PromStop_swallow ==
    /\ main_pc \in {"finally", "finally_exc"}
    /\ prom_svr' = "stopped"
    /\ main_pc' = "close"
    /\ UNCHANGED <<config, gem_pc, server, stats, monitor, applied, raised,
                   delivered>>

\* finally: loop.run_until_complete(prom_svr.stop()); an exception that
\* was on its way continues after it, otherwise loop.close() is next
PromStop ==
    /\ main_pc \in {"finally", "finally_exc"}
    /\ prom_svr' = "stopped"
    /\ main_pc' = IF main_pc = "finally" THEN "close" ELSE "failed"
    /\ UNCHANGED <<config, gem_pc, server, stats, monitor, applied, raised,
                   delivered>>

LoopClose ==
    /\ main_pc = "close"
    /\ main_pc' = "done"
    /\ UNCHANGED <<config, gem_pc, prom_svr, server, stats, monitor, applied,
                   raised, delivered>>

\* exit status of the process: 0 after main() returns, 1 after sys.exit(1)
\* or an exception that leaves main(), -1 while it runs
ExitStatus ==
    IF main_pc = "done" THEN 0
    ELSE IF main_pc \in {"exit1", "failed"} THEN 1
    ELSE 0 - 1

\* The event loop calls a monitor's listener only while main is inside a
\* run_until_complete, and only monitors that connected to the server do so;
\* a connection accepted before the server closed lives on after it.
LoopRunning == main_pc \in {"run", "rerun", "finally", "finally_exc"}

\* variant: listeners are called before the server is started
CanDeliver_early == LoopRunning

CanDeliver == LoopRunning /\ server \in {"open", "closed"}

\* what update_stats does for each configuration and packet of the model
Result == [cfg \in Configs |-> [mon \in Monitors |-> update_stats(cfg, mon)]]

\* variant: the task yields after the packet counter; the gauges of the
\* packet are not yet written when the step ends
UpdateStats_yield_after_inc(mon) ==
    /\ CanDeliver
    /\ Total < MaxReadings
    /\ LET r == Result[config][mon]
       IN /\ stats' = ApplyCalls(stats, SubSeq(r.ups, 1, 1), 1)
          /\ applied' = r.ups
          /\ raised' = r.err
    /\ monitor' = mon
    /\ delivered' = [delivered EXCEPT ![mon.serial_number] = @ + 1]
    /\ UNCHANGED <<config, main_pc, gem_pc, prom_svr, server>>

\* the listener of on_new_monitor: update_stats(stats, config, monitor)
UpdateStats(mon) ==
    /\ CanDeliver
    /\ Total < MaxReadings
    /\ LET r == Result[config][mon]
       IN /\ stats' = ApplyCalls(stats, r.ups, 1)
          /\ applied' = r.ups
          /\ raised' = r.err
    /\ monitor' = mon
    /\ delivered' = [delivered EXCEPT ![mon.serial_number] = @ + 1]
    /\ UNCHANGED <<config, main_pc, gem_pc, prom_svr, server>>

Next ==
    \/ GetConfigOk
    \/ GetConfigNotFound
    \/ GetConfigRaises
    \/ PromStartOk
    \/ PromStartFail
    \/ StartServerOk
    \/ StartServerFail
    \/ SleepAgain
    \/ KeyboardInterrupt
    \/ GemCancelled
    \/ PromStop
    \/ LoopClose
    \/ \E mon \in Monitors : UpdateStats(mon)

Spec == Init /\ [][Next]_vars

\* The event loop resumes a cancelled task, prom_svr.stop() returns and
\* loop.close() is reached: main() does not wait on anything else.
LiveSpec ==
    /\ Spec
    /\ WF_vars(GemCancelled \/ PromStop \/ LoopClose)

----------------------------------------------------------------------------
(* Vocabulary of the properties *)

Called == monitor # NoMonitor

DeviceConfigured == monitor.serial_number \in DOMAIN config

CallsOn(inst) == {k \in 1..Len(applied) : applied[k].inst = inst}

PowerCallsFrom(i) == {k \in CallsOn("gem_ac_power") : applied[k].src = i}

\* value of a time series, 0 when it does not exist
ValueOf(values, labels) == IF labels \in DOMAIN values THEN values[labels] ELSE 0

SerialOnly(s) == [serial |-> StrV(s)]

\* position i of monitor.channels lies before any channel number >= 32
BeforeCeiling(i) == \A j \in 1..i : monitor.channels[j].number < 32

\* the hardware number of position i is a key of the device's channels mapping
ChannelKeyed(i) ==
    LET cc == Get(config[monitor.serial_number], "channels")
    IN ~IsNone(cc) /\ (monitor.channels[i].number + 1) \in DOMAIN cc.d

\* ... and that key holds a mapping of labels
ChannelHasTags(i) ==
    /\ ChannelKeyed(i)
    /\ ~IsNone(Get(config[monitor.serial_number], "channels").d[
                   monitor.channels[i].number + 1])

ExtraNames(i) ==
    DOMAIN Get(config[monitor.serial_number], "channels").d[
                   monitor.channels[i].number + 1].d

----------------------------------------------------------------------------
(* C1: a packet of a device that is not in the configuration makes exactly *)
(* one call, the packet-counter increment labelled with its serial, and    *)
(* leaves both gauges as they were.                                        *)

C1_UnconfiguredState ==
    (Called /\ ~DeviceConfigured) =>
        /\ Len(applied) = 1
        /\ applied[1].inst = "gem_packets_rcvd"
        /\ applied[1].labels = SerialOnly(monitor.serial_number)
        /\ ~raised

C1_UnconfiguredStep ==
    (delivered' # delivered /\ monitor'.serial_number \notin DOMAIN config) =>
        /\ stats'.gem_ac_voltage = stats.gem_ac_voltage
        /\ stats'.gem_ac_power = stats.gem_ac_power
        /\ stats'.gem_packets_rcvd # stats.gem_packets_rcvd

C1_UnconfiguredOnlyCounts == [][C1_UnconfiguredStep]_vars /\ []C1_UnconfiguredState

C1_Witness ==
    /\ Called /\ ~DeviceConfigured
    /\ Len(monitor.channels) > 0
    /\ monitor.channels[1].number = 0
    /\ stats.gem_ac_voltage # EmptyDict
    /\ stats.gem_ac_power # EmptyDict

----------------------------------------------------------------------------
(* C2: the packet counter of serial s equals the number of packets         *)
(* delivered for s, whether or not s is configured and whether or not the  *)
(* call raised, and no counter value ever decreases.                       *)

C2_CounterState ==
    /\ \A s \in Serials :
          ValueOf(stats.gem_packets_rcvd, SerialOnly(s)) = delivered[s]
    /\ DOMAIN stats.gem_packets_rcvd \subseteq {SerialOnly(s) : s \in Serials}

C2_CounterStep ==
    \A l \in DOMAIN stats.gem_packets_rcvd :
        /\ l \in DOMAIN stats'.gem_packets_rcvd
        /\ stats'.gem_packets_rcvd[l] >= stats.gem_packets_rcvd[l]

C2_CounterCountsReadings == []C2_CounterState /\ [][C2_CounterStep]_vars

C2_Witness ==
    /\ \E s \in Serials : delivered[s] >= 2
    /\ Called

----------------------------------------------------------------------------
(* C3: no call of update_stats raises, whatever the configuration entry    *)
(* leaves out.                                                             *)

C3_NeverRaises == ~raised

----------------------------------------------------------------------------
(* C4: no power update comes from a position of monitor.channels at or     *)
(* after the first channel whose number is >= 32.                          *)

C4_CeilingShortCircuit ==
    \A k \in CallsOn("gem_ac_power") : BeforeCeiling(applied[k].src)

C4_Witness ==
    /\ Called /\ DeviceConfigured /\ ~raised
    /\ \E i, j \in 1..Len(monitor.channels) :
          /\ i < j
          /\ monitor.channels[i].number >= 32
          /\ monitor.channels[j].number < 32
          /\ ChannelHasTags(j)
    /\ CallsOn("gem_ac_power") = {}

----------------------------------------------------------------------------
(* C5: the channel label of every power update is the number of the        *)
(* channel it came from plus one.                                          *)

C5_ChannelLabelIsIndexPlusOne ==
    \A k \in CallsOn("gem_ac_power") :
        /\ "channel" \in DOMAIN applied[k].labels
        /\ applied[k].labels["channel"] =
               IntV(monitor.channels[applied[k].src].number + 1)

----------------------------------------------------------------------------
(* C6: for a configured device, every channel before the ceiling whose     *)
(* hardware number is a key of the channels mapping makes exactly one      *)
(* power update, carrying its watts, and every other channel before the    *)
(* ceiling makes none.                                                     *)

C6_OneUpdatePerConfiguredChannel ==
    (Called /\ DeviceConfigured) =>
        \A i \in 1..Len(monitor.channels) :
            BeforeCeiling(i) =>
                IF ChannelKeyed(i)
                THEN /\ Cardinality(PowerCallsFrom(i)) = 1
                     /\ \A k \in PowerCallsFrom(i) :
                            applied[k].value = monitor.channels[i].watts
                ELSE PowerCallsFrom(i) = {}

----------------------------------------------------------------------------
(* C7 as stated: within each instrument all time series carry the same     *)
(* label names.                                                            *)

----------------------------------------------------------------------------
(* C8 as stated: packet counter first, voltage second, then the power      *)
(* updates in ascending order of their channels' numbers.                  *)

C8_AscendingNumberOrder ==
    (Called /\ DeviceConfigured) =>
        /\ Len(applied) >= 2
        /\ applied[1].inst = "gem_packets_rcvd"
        /\ applied[2].inst = "gem_ac_voltage"
        /\ \A k \in 3..Len(applied) : applied[k].inst = "gem_ac_power"
        /\ \A k, m \in 3..Len(applied) :
               k < m => monitor.channels[applied[k].src].number
                            <= monitor.channels[applied[m].src].number

(* C8 amended: packet counter first, voltage second, then the power        *)
(* updates in the order of their channels in monitor.channels.             *)

C8_ChannelListOrder ==
    (Called /\ DeviceConfigured) =>
        /\ Len(applied) >= 2
        /\ applied[1].inst = "gem_packets_rcvd"
        /\ applied[2].inst = "gem_ac_voltage"
        /\ \A k \in 3..Len(applied) : applied[k].inst = "gem_ac_power"
        /\ \A k, m \in 3..Len(applied) :
               k < m => applied[k].src < applied[m].src

C8_Witness ==
    /\ Called /\ DeviceConfigured /\ ~raised
    /\ Len(applied) = 4
    /\ monitor.channels[applied[3].src].number
           > monitor.channels[applied[4].src].number

----------------------------------------------------------------------------
(* C9: an instrument changes only after prom_svr.start and start_server    *)
(* have both returned; when either raises, gem() ends in that error        *)
(* without ever sleeping in its loop, no instrument is ever written, and   *)
(* main goes straight to its finally block, which stops the scrape server. *)

BothStarted == gem_pc \in {"sleep", "done"} /\ server \in {"open", "closed"}

C9_UpdateStep == (stats' # stats) => (BothStarted /\ prom_svr = "started")

C9_FailureStep ==
    /\ (gem_pc' = "error" /\ gem_pc # "error") =>
           (gem_pc \in {"prom_start", "start_server"} /\ main_pc' = "finally_exc")
    /\ (gem_pc = "error") => (gem_pc' = "error")
    /\ (main_pc = "finally_exc") => (main_pc' = "finally_exc" \/
                                     (main_pc' = "failed" /\ prom_svr' = "stopped"))

C9_FailureState ==
    (gem_pc = "error") =>
        /\ stats = register_prom_stats
        /\ server = "init"
        /\ main_pc \in {"finally_exc", "failed"}
        /\ (main_pc = "failed") => (prom_svr = "stopped")

C9_StartupGating ==
    /\ [][C9_UpdateStep /\ C9_FailureStep]_vars
    /\ []C9_FailureState

C9_Witness ==
    /\ gem_pc = "error"
    /\ main_pc = "failed"
    /\ prom_svr = "stopped"

----------------------------------------------------------------------------
(* C10: when the scrape server is stopped the device server is no longer   *)
(* open (after a KeyboardInterrupt it was closed first), and once the      *)
(* scrape server is stopped no instrument changes any more.                *)

C10_ClosedBeforeStop == (prom_svr = "stopped") => (server # "open")

C10_StopStep ==
    /\ (prom_svr' = "stopped" /\ prom_svr # "stopped") => (server # "open")
    /\ (prom_svr = "stopped") => (stats' = stats /\ prom_svr' = "stopped")

C10_ShutdownOrder == []C10_ClosedBeforeStop /\ [][C10_StopStep]_vars

C10_Witness ==
    /\ main_pc = "done"
    /\ gem_pc = "done"
    /\ server = "closed"
    /\ prom_svr = "stopped"
    /\ Called

----------------------------------------------------------------------------
(* C11: once the KeyboardInterrupt is taken, in the start-up or in the     *)
(* sleep loop, main() reaches its end with the device server not open,     *)
(* the scrape server stopped and the loop closed; nothing happens after.   *)

Stopped ==
    /\ main_pc = "done"
    /\ gem_pc \in {"done", "cancelled"}
    /\ server # "open"
    /\ prom_svr = "stopped"

C11_StoppedIsTerminal == (main_pc = "done") => UNCHANGED vars

C11_ShutdownTerminates ==
    /\ (main_pc = "rerun") ~> Stopped
    /\ [][C11_StoppedIsTerminal]_vars

C11_Witness ==
    /\ Stopped
    /\ gem_pc = "cancelled"
    /\ server = "init"

----------------------------------------------------------------------------
(* C12: a packet of a configured device makes exactly one voltage update,  *)
(* with the packet's voltage and the labels serial and location; without   *)
(* a configured location the location label is the empty string.           *)

C12_OneVoltageUpdate ==
    (Called /\ DeviceConfigured) =>
        LET location == Get(config[monitor.serial_number], "location")
        IN /\ Cardinality(CallsOn("gem_ac_voltage")) = 1
           /\ \A k \in CallsOn("gem_ac_voltage") :
                 /\ applied[k].value = monitor.voltage
                 /\ DOMAIN applied[k].labels = {"serial", "location"}
                 /\ applied[k].labels["serial"] = StrV(monitor.serial_number)
                 /\ applied[k].labels["location"] =
                        IF IsNone(location) THEN StrV("") ELSE location

----------------------------------------------------------------------------
(* C13: a channel before the ceiling whose key in the channels mapping     *)
(* holds an empty mapping or no value still makes its power update, and    *)
(* the labels of that update are the labels of the voltage update plus     *)
(* channel.                                                                *)

EmptyTags(i) ==
    LET tags == Get(config[monitor.serial_number], "channels").d[
                    monitor.channels[i].number + 1]
    IN IsNone(tags) \/ tags.d = EmptyDict

C13_EmptyLabelsStillUpdate ==
    (Called /\ DeviceConfigured) =>
        \A i \in 1..Len(monitor.channels) :
            (BeforeCeiling(i) /\ ChannelKeyed(i) /\ EmptyTags(i)) =>
                /\ ~raised
                /\ Cardinality(PowerCallsFrom(i)) = 1
                /\ \A k \in PowerCallsFrom(i) :
                      /\ applied[k].value = monitor.channels[i].watts
                      /\ applied[k].labels =
                             PyMerge(applied[2].labels,
                                     "channel" :> IntV(monitor.channels[i].number + 1))

\* the same for empty mappings only
C13_EmptyMappingOnly ==
    (Called /\ DeviceConfigured) =>
        \A i \in 1..Len(monitor.channels) :
            (BeforeCeiling(i) /\ ChannelHasTags(i) /\ EmptyTags(i)) =>
                /\ ~raised
                /\ Cardinality(PowerCallsFrom(i)) = 1
                /\ \A k \in PowerCallsFrom(i) :
                      /\ applied[k].value = monitor.channels[i].watts
                      /\ applied[k].labels =
                             PyMerge(applied[2].labels,
                                     "channel" :> IntV(monitor.channels[i].number + 1))

----------------------------------------------------------------------------
(* C15: when prom_svr.start or start_server raises, gem() is never in its  *)
(* sleep loop afterwards and the process ends with a non-zero status, not  *)
(* a normal return of main(); a configuration file that cannot be read     *)
(* ends the process with a non-zero status as well.                        *)

C15_StartFailureState ==
    (gem_pc = "error") => (main_pc \in {"finally_exc", "failed"} /\ ExitStatus # 0)

C15_ExitStep ==
    /\ (main_pc = "get_config" /\ main_pc' \notin {"get_config", "run"}) =>
           (ExitStatus' = 1 /\ gem_pc' = "created" /\ prom_svr' = "init")
    /\ (ExitStatus' = 0) => (gem_pc' \in {"done", "cancelled"})

C15_StartupFailureIsFatal ==
    /\ []C15_StartFailureState
    /\ [][C15_ExitStep]_vars
    /\ (gem_pc = "error") ~> (ExitStatus = 1)

C15_Witness ==
    /\ gem_pc = "error"
    /\ server = "init"
    /\ ExitStatus = 1

----------------------------------------------------------------------------
(* C16: after a packet, each gauge time series it set holds the value of   *)
(* the packet's last set call for it; a time series changes or appears     *)
(* only in a step whose packet sets it, so it keeps the value of the most  *)
(* recent packet that set it; the same packet again changes no gauge.      *)

Gauges == {"gem_ac_voltage", "gem_ac_power"}

LastCallFor(k) ==
    \A m \in (k + 1)..Len(applied) :
        ~(applied[m].inst = applied[k].inst /\ applied[m].labels = applied[k].labels)

C16_LatestState ==
    \A k \in 1..Len(applied) :
        (applied[k].inst \in Gauges /\ LastCallFor(k)) =>
            /\ applied[k].labels \in DOMAIN stats[applied[k].inst]
            /\ stats[applied[k].inst][applied[k].labels] = applied[k].value

SetInStep(g, l) ==
    /\ delivered' # delivered
    /\ \E k \in 1..Len(applied') : applied'[k].inst = g /\ applied'[k].labels = l

C16_KeepStep ==
    \A g \in Gauges :
        /\ \A l \in DOMAIN stats[g] :
              /\ l \in DOMAIN stats'[g]
              /\ (stats'[g][l] # stats[g][l]) => SetInStep(g, l)
        /\ \A l \in DOMAIN stats'[g] \ DOMAIN stats[g] : SetInStep(g, l)

C16_ReapplyStep ==
    (delivered' # delivered /\ monitor' = monitor) =>
        /\ stats'.gem_ac_voltage = stats.gem_ac_voltage
        /\ stats'.gem_ac_power = stats.gem_ac_power

C16_GaugesLastWriteWins ==
    /\ []C16_LatestState
    /\ [][C16_KeepStep /\ C16_ReapplyStep]_vars

C16_Witness ==
    /\ Called /\ DeviceConfigured
    /\ delivered[monitor.serial_number] >= 2
    /\ CallsOn("gem_ac_power") # {}
    /\ \E s \in Serials : s # monitor.serial_number /\ delivered[s] = 0

----------------------------------------------------------------------------
(* C17: every step that writes an instrument is the handling of exactly    *)
(* one packet, writes all the calls that packet makes and nothing else,    *)
(* and moves neither main() nor gem() nor the two servers; the states      *)
(* between steps, which a scrape reads, never hold a packet counted        *)
(* without its voltage or a call of the latest packet not yet written.     *)

C17_OnePacketStep ==
    (stats' # stats \/ delivered' # delivered) =>
        /\ UNCHANGED <<config, main_pc, gem_pc, prom_svr, server>>
        /\ \E s \in Serials :
              /\ monitor'.serial_number = s
              /\ delivered' = [delivered EXCEPT ![s] = @ + 1]
        /\ stats' = ApplyCalls(stats, applied', 1)

C17_NothingHalfWritten ==
    /\ \A s \in Serials \cap DOMAIN config :
          (ValueOf(stats.gem_packets_rcvd, SerialOnly(s)) > 0)
              <=> (\E l \in DOMAIN stats.gem_ac_voltage : l["serial"] = StrV(s))
    /\ \A k \in 1..Len(applied) :
          applied[k].labels \in DOMAIN stats[applied[k].inst]

----------------------------------------------------------------------------
(* C18: a packet of device s creates or changes only time series whose     *)
(* serial label is s, and power series only with the location configured   *)
(* for s; the serial and location labels of its power updates are those    *)
(* of its voltage update, whatever extra labels the channel has.           *)

Instruments == {"gem_packets_rcvd", "gem_ac_voltage", "gem_ac_power"}

Written(g, l) ==
    /\ l \in DOMAIN stats'[g]
    /\ (l \in DOMAIN stats[g]) => (stats'[g][l] # stats[g][l])

C18_WritesOwnSeriesStep ==
    (delivered' # delivered) =>
        LET s == monitor'.serial_number
        IN /\ \A g \in Instruments : \A l \in DOMAIN stats'[g] :
                 Written(g, l) =>
                     /\ l["serial"] = StrV(s)
                     /\ (g = "gem_ac_power") =>
                            (l["location"] = Get(config[s], "location"))
           /\ \A g \in Instruments : \A l \in DOMAIN stats[g] :
                 l \in DOMAIN stats'[g]
           /\ \A k \in 1..Len(applied') :
                 (applied'[k].inst = "gem_ac_power") =>
                     /\ applied'[k].labels["serial"] = applied'[2].labels["serial"]
                     /\ applied'[k].labels["location"] = applied'[2].labels["location"]

C18_DeviceIsolation == [][C18_WritesOwnSeriesStep]_vars

====
